---- MODULE Spec2Model ----
(***************************************************************************)
(* PlusCraft: the graphics bootstrap and frame loop of src/main.cpp.       *)
(*                                                                         *)
(* The program is one thread.  Its state is the file-scope statics of      *)
(* main.cpp (m_mainWindow, m_windowShouldClose, the Diligent handles, the   *)
(* three matrices), the locals of main() that outlive a statement, the     *)
(* SDL event queue, and the position of the thread (pc).                   *)
(*                                                                         *)
(* The collaborators (SDL2, Diligent) are not part of the repository.      *)
(* Each call into them that can fail draws its outcome from {ok, fail}.    *)
(* A Diligent creation call reports failure the way its signature allows:  *)
(* it returns void and leaves the output handle null.  A member call       *)
(* through a null RefCntAutoPtr (or a call of a null function pointer)     *)
(* reads through address 0, which faults on the two platforms the file     *)
(* compiles for (Win32, macOS): the process is killed, main() does not     *)
(* return and no atexit handler runs.                                      *)
(***************************************************************************)
EXTENDS Integers, Sequences, FiniteSets, TLC

\* ------------------------------------------------------------------ bounds
\* How many events the window system delivers over one run.
MaxEvents == 2
\* SDL_GetTicks() is read as a value in 0..MaxTicks (it never decreases).
MaxTicks == 1
\* How many events the queue holds at most while input keeps coming in.
MaxBacklog == 2

\* ---------------------------------------------------- program constants
\* VideoMode videoMode{1920, 1080, 1, WINDOWED}
VideoModeWidth == 1920
\* A square video mode.
VideoModeHeightMutant == VideoModeWidth
VideoModeHeight == 1080
VideoModeSyncInterval == 1
\* m_projMatrix = Projection(M_PI_2, 16.f / 9.f, ...)
InitialAspectNum == 16
InitialAspectDen == 9
\* Vertex CubeVerts[8], each a float3 and a float4
CubeVertsCount == 8
\* The vertex count handed over as the index count.
NumIndicesMutant == CubeVertsCount
\* drawAttrs.NumIndices = 36
NumIndices == 36
\* the return codes of main()
ExitSDLInitFailed == -1
ExitWindowFailed == -3
ExitEngineInitFailed == -5
ExitOK == 0

\* ------------------------------------------------------- build and input
\* The file compiles where a native-window wrapper exists for the Vulkan case.
Platforms == {"win32", "macosx"}

\* dg::RENDER_DEVICE_TYPE values the spec names.
RenderDeviceTypes == {"D3D11", "D3D12", "VULKAN", "GL"}

\* The case labels the switch of InitializeGraphicsEngine has on platform p.
CompiledCasesMutant(p) == RenderDeviceTypes

CompiledCases(p) == IF p = "win32" THEN {"D3D11", "D3D12", "VULKAN"} ELSE {"VULKAN"}

\* Window sizes a resize event can carry (data1, data2).
ResizeSizes == {<<800, 600>>, <<1280, 720>>}

QuitEvent == [type |-> "SDL_QUIT", event |-> "NONE", data1 |-> 0, data2 |-> 0]

WindowEvent(e, w, h) == [type |-> "SDL_WINDOWEVENT", event |-> e, data1 |-> w, data2 |-> h]

OtherEvent == [type |-> "SDL_KEYDOWN", event |-> "NONE", data1 |-> 0, data2 |-> 0]

ResizeEvents == {WindowEvent(e, s[1], s[2]) : e \in {"SDL_WINDOWEVENT_RESIZED", "SDL_WINDOWEVENT_SIZE_CHANGED"}, s \in ResizeSizes}

\* Everything SDL_PollEvent can hand to the loop.
Events == {QuitEvent, OtherEvent, WindowEvent("SDL_WINDOWEVENT_EXPOSED", 0, 0)} \cup ResizeEvents

IsResize(e) == e.type = "SDL_WINDOWEVENT" /\ e.event \in {"SDL_WINDOWEVENT_RESIZED", "SDL_WINDOWEVENT_SIZE_CHANGED"}

\* Sequences over S of length 0..n.
SeqsUpTo(S, n) == UNION {[1..k -> S] : k \in 0..n}

\* ---------------------------------------------------------------- values
NULL == "null"

\* An ISwapChain handle: which object it points to (0: none) and the size the
\* object reports.
NullSwapChain == [valid |-> FALSE, id |-> 0, Width |-> 0, Height |-> 0]

\* The swapchain object the factory creates.
NewSwapChain(width, height) == [valid |-> TRUE, id |-> 1, Width |-> width, Height |-> height]

NullView == [valid |-> FALSE, Width |-> 0, Height |-> 0]

RECURSIVE GCD(_, _)
GCD(a, b) == IF b = 0 THEN a ELSE GCD(b, a % b)

\* static_cast<float>(width) / static_cast<float>(height): the quotient, as a
\* fraction in lowest terms (two sizes give the same float iff these agree).
AspectOf(width, height) == LET g == GCD(width, height) IN <<width \div g, height \div g>>

\* dg::float4x4 values, kept symbolically.
ZeroMatrix == [kind |-> "Zero", aspect |-> <<0, 0>>, ticks |-> 0]

IdentityMatrix == [kind |-> "Identity", aspect |-> <<0, 0>>, ticks |-> 0]

\* float4x4::Projection(M_PI_2, aspect, 0.1f, 1000.f, false)
Projection(aspect) == [kind |-> "Projection", aspect |-> aspect, ticks |-> 0]

\* RotationY(SDL_GetTicks() / 500.f) * Translation(0, 0, 5)
ModelAt(t) == [kind |-> "RotationY*Translation", aspect |-> <<0, 0>>, ticks |-> t]

\* (m_modelMatrix * m_viewMatrix * m_projMatrix).Transpose()
TransposedMVP(m, v, p) == [model |-> m, view |-> v, proj |-> p, transposed |-> TRUE]

NoConstants == [model |-> ZeroMatrix, view |-> ZeroMatrix, proj |-> ZeroMatrix, transposed |-> FALSE]

\* A dg::IBuffer the program maps: whether it is mapped, what the host wrote
\* into the mapping, and what the GPU sees after the unmap.
NullBuffer == [valid |-> FALSE, mapped |-> FALSE, staging |-> NoConstants, data |-> NoConstants]

NewConstantsBuffer == [valid |-> TRUE, mapped |-> FALSE, staging |-> NoConstants, data |-> NoConstants]

NoDraw == [call |-> "none", count |-> 0, indexBytes |-> 0]

\* uint32_t CubeIndices[] = { ... }
CubeIndices ==
    << 2, 0, 1, 2, 3, 0,
       4, 6, 5, 4, 7, 6,
       0, 7, 4, 0, 3, 7,
       1, 0, 4, 1, 4, 5,
       1, 5, 2, 5, 6, 2,
       3, 6, 7, 3, 2, 6 >>

\* sizeof(uint32_t), the size of one VT_UINT32 index
SizeofUint32 == 4

\* An immutable geometry buffer: IndBuffDesc.Size / VertBuffDesc.Size bytes.
NullGeometry == [valid |-> FALSE, bytes |-> 0]

SizeofVertex == 28

\* One entry of the record of calls an iteration has issued.
Call(name) == [call |-> name, a |-> 0, b |-> 0]

CallWH(name, w, h) == [call |-> name, a |-> w, b |-> h]

\* ------------------------------------------------------------------ state
VARIABLES
    platform,            \* the platform the file was compiled for
    renderDeviceType,    \* the kind handed to InitializeGraphicsEngine
    pc,                  \* the statement of main() the thread is at
    returned,            \* main() has returned
    exitCode,            \* the value main() returned (meaningful once returned)
    sdlInit,             \* SDL_Init succeeded and SDL_Quit has not run
    atexitRegistered,    \* atexit(cleanup) has run
    m_mainWindow,        \* NULL, "window", "destroyed", or "destroyed twice"
    pFactory,            \* the engine factory InitializeGraphicsEngine holds
    m_pDevice,
    m_pImmediateContext,
    m_pSwapChain,        \* [valid, id, Width, Height]
    pVS,
    pPS,
    m_pVSConstants,      \* [valid, mapped, staging, data]
    m_pPSO,
    staticConstants,     \* what the PSO's static variable "Constants" is set to
    cubeVertexBuffer,
    cubeIndexBuffer,
    m_pSRB,
    m_projMatrix,
    m_viewMatrix,
    m_modelMatrix,
    m_windowShouldClose,
    queue,               \* the SDL event queue
    pumped,              \* how many events the window system has delivered
    pRTV,                \* the back-buffer view fetched for this frame
    pDSV,
    frameCalls,          \* the calls the current iteration has issued, in order
    drawAttrs,           \* the attributes of the last draw call
    ticks,               \* the last value SDL_GetTicks() returned
    startupFailure,      \* history: the SDL startup step that failed
    initFailure,         \* history: the first backend-init step that failed
    buildFailure,        \* history: the first shader/pipeline step that failed
    quitQueued,          \* history: a quit event has been put in the queue
    cycleAfterQuit,      \* history: this frame's render began after that
    cyclesAfterQuit,     \* history: render+present cycles begun and ended after that
    lastResize           \* history: the size of the last resize event dequeued

cfgVars == <<platform, renderDeviceType>>

procVars == <<returned, exitCode, sdlInit, atexitRegistered, m_mainWindow>>

sessVars == <<pFactory, m_pDevice, m_pImmediateContext, m_pSwapChain>>

pipeVars == <<pVS, pPS, m_pVSConstants, m_pPSO, staticConstants, cubeVertexBuffer, cubeIndexBuffer, m_pSRB>>

matVars == <<m_projMatrix, m_viewMatrix, m_modelMatrix>>

loopVars == <<m_windowShouldClose, queue, pumped, pRTV, pDSV, frameCalls, drawAttrs, ticks>>

histVars == <<startupFailure, initFailure, buildFailure, quitQueued, cycleAfterQuit, cyclesAfterQuit, lastResize>>

vars == <<cfgVars, pc, procVars, sessVars, pipeVars, matVars, loopVars, histVars>>

NoSize == <<0, 0>>

Init ==
    /\ platform \in Platforms
    /\ renderDeviceType \in RenderDeviceTypes
    /\ pc = "SDL_Init"
    /\ returned = FALSE
    /\ exitCode = 0
    /\ sdlInit = FALSE
    /\ atexitRegistered = FALSE
    /\ m_mainWindow = NULL
    /\ pFactory = NULL
    /\ m_pDevice = NULL
    /\ m_pImmediateContext = NULL
    /\ m_pSwapChain = NullSwapChain
    /\ pVS = NULL
    /\ pPS = NULL
    /\ m_pVSConstants = NullBuffer
    /\ m_pPSO = NULL
    /\ staticConstants = NULL
    /\ cubeVertexBuffer = NullGeometry
    /\ cubeIndexBuffer = NullGeometry
    /\ m_pSRB = NULL
    /\ m_projMatrix = ZeroMatrix
    /\ m_viewMatrix = ZeroMatrix
    /\ m_modelMatrix = ZeroMatrix
    /\ m_windowShouldClose = FALSE
    /\ queue = <<>>
    /\ pumped = 0
    /\ pRTV = NullView
    /\ pDSV = NullView
    /\ frameCalls = <<>>
    /\ drawAttrs = NoDraw
    /\ ticks = 0
    /\ startupFailure = "none"
    /\ initFailure = "none"
    /\ buildFailure = "none"
    /\ quitQueued = FALSE
    /\ cycleAfterQuit = FALSE
    /\ cyclesAfterQuit = 0
    /\ lastResize = NoSize

\* ------------------------------------------------------- process control
\* `return code;` from main(): the process then runs its atexit handlers.
Return(code) ==
    /\ returned' = TRUE
    /\ exitCode' = code
    /\ pc' = "exit"

\* A call through a null handle: the process is killed where it stands.
Fault == pc' = "crashed"

\* void cleanup() { if (m_mainWindow) SDL_DestroyWindow(m_mainWindow); SDL_Quit(); }
\* The pointer is not reset: it stays non-null after the window is destroyed.
cleanup ==
    /\ m_mainWindow' = IF m_mainWindow = "window" THEN "destroyed"
                       ELSE IF m_mainWindow = "destroyed" THEN "destroyed twice"
                       ELSE m_mainWindow
    /\ sdlInit' = FALSE

\* Process exit after main() returned: the registered handler runs.
AtExit ==
    /\ pc = "exit"
    /\ pc' = "done"
    /\ IF atexitRegistered THEN cleanup ELSE UNCHANGED <<m_mainWindow, sdlInit>>
    /\ UNCHANGED <<cfgVars, returned, exitCode, atexitRegistered, sessVars, pipeVars, matVars, loopVars, histVars>>

\* ------------------------------------------------------- main(): startup
\* if (SDL_Init(...) != 0) return -1;
SDL_Init ==
    /\ pc = "SDL_Init"
    /\ \E ok \in BOOLEAN :
        IF ok
        THEN /\ sdlInit' = TRUE
             /\ pc' = "atexit"
             /\ UNCHANGED <<returned, exitCode>>
        ELSE /\ Return(ExitSDLInitFailed)
             /\ UNCHANGED sdlInit
    /\ startupFailure' = IF pc' = "exit" THEN "SDL_Init" ELSE startupFailure
    /\ UNCHANGED <<cfgVars, atexitRegistered, m_mainWindow, sessVars, pipeVars, matVars, loopVars, initFailure, buildFailure, quitQueued, cycleAfterQuit, cyclesAfterQuit, lastResize>>

\* atexit(cleanup);
RegisterAtExit ==
    /\ pc = "atexit"
    /\ atexitRegistered' = TRUE
    /\ pc' = "SDL_CreateWindow"
    /\ UNCHANGED <<cfgVars, returned, exitCode, sdlInit, m_mainWindow, sessVars, pipeVars, matVars, loopVars, histVars>>

\* m_mainWindow = SDL_CreateWindow(...); if (m_mainWindow == nullptr) return -3;
SDL_CreateWindow ==
    /\ pc = "SDL_CreateWindow"
    /\ \E ok \in BOOLEAN :
        IF ok
        THEN /\ m_mainWindow' = "window"
             /\ pc' = "InitializeGraphicsEngine"
             /\ UNCHANGED <<returned, exitCode>>
        ELSE /\ Return(ExitWindowFailed)
             /\ UNCHANGED m_mainWindow
    /\ startupFailure' = IF pc' = "exit" THEN "SDL_CreateWindow" ELSE startupFailure
    /\ UNCHANGED <<cfgVars, sdlInit, atexitRegistered, sessVars, pipeVars, matVars, loopVars, initFailure, buildFailure, quitQueued, cycleAfterQuit, cyclesAfterQuit, lastResize>>

\* ------------------------------------------- InitializeGraphicsEngine()
\* GetNativeWindowInfo(), SCDesc, and the switch on renderDeviceType: a kind
\* with no case compiled in reaches `default: throw std::runtime_error(...)`.
IGE_Switch ==
    /\ pc = "InitializeGraphicsEngine"
    /\ IF renderDeviceType \in CompiledCases(platform)
       THEN /\ pc' = "GetEngineFactory"
            /\ UNCHANGED initFailure
       ELSE /\ pc' = "catch"
            /\ initFailure' = "unsupported"
    /\ UNCHANGED <<cfgVars, procVars, sessVars, pipeVars, matVars, loopVars, startupFailure, buildFailure, quitQueued, cycleAfterQuit, cyclesAfterQuit, lastResize>>

\* Whether GetEngineFactoryXxx is a pointer obtained at run time
\* (#if ENGINE_DLL / EXPLICITLY_LOAD_ENGINE_VK_DLL: the Windows build, which
\* loads the engine DLLs) rather than a linked function.
FactoryIsLoaded(p) == p = "win32"

\* auto *pFactory = GetEngineFactoryXxx(); a loaded function pointer comes
\* from LoadGraphicsEngineXxx(), which is null when the module cannot be
\* loaded, and is then called.
IGE_GetEngineFactory ==
    /\ pc = "GetEngineFactory"
    /\ \E ok \in (IF FactoryIsLoaded(platform) THEN BOOLEAN ELSE {TRUE}) :
        IF ok
        THEN /\ pFactory' = renderDeviceType
             /\ pc' = "CreateDeviceAndContexts"
             /\ UNCHANGED initFailure
        ELSE /\ Fault
             /\ initFailure' = "factory"
             /\ UNCHANGED pFactory
    /\ UNCHANGED <<cfgVars, procVars, m_pDevice, m_pImmediateContext, m_pSwapChain, pipeVars, matVars, loopVars, startupFailure, buildFailure, quitQueued, cycleAfterQuit, cyclesAfterQuit, lastResize>>

\* pFactory->CreateDeviceAndContextsXxx(EngineCI, &m_pDevice, &m_pImmediateContext);
\* the result is not looked at.
IGE_CreateDeviceAndContexts ==
    /\ pc = "CreateDeviceAndContexts"
    /\ \E ok \in BOOLEAN :
        IF ok
        THEN /\ m_pDevice' = "device"
             /\ m_pImmediateContext' = "context"
             /\ UNCHANGED initFailure
        ELSE /\ initFailure' = "device"
             /\ UNCHANGED <<m_pDevice, m_pImmediateContext>>
    /\ pc' = "CreateSwapChain"
    /\ UNCHANGED <<cfgVars, procVars, pFactory, m_pSwapChain, pipeVars, matVars, loopVars, startupFailure, buildFailure, quitQueued, cycleAfterQuit, cyclesAfterQuit, lastResize>>

\* pFactory->CreateSwapChainXxx(m_pDevice, m_pImmediateContext, SCDesc, ..., &m_pSwapChain);
\* break; and the function returns.  No swapchain comes of a null device.
IGE_CreateSwapChain ==
    /\ pc = "CreateSwapChain"
    /\ \E ok \in BOOLEAN :
        IF ok /\ m_pDevice # NULL
        THEN /\ m_pSwapChain' = NewSwapChain(VideoModeWidth, VideoModeHeight)
             /\ UNCHANGED initFailure
        ELSE /\ initFailure' = IF initFailure = "none" THEN "swapchain" ELSE initFailure
             /\ UNCHANGED m_pSwapChain
    /\ pc' = "PSODesc"
    /\ UNCHANGED <<cfgVars, procVars, pFactory, m_pDevice, m_pImmediateContext, pipeVars, matVars, loopVars, startupFailure, buildFailure, quitQueued, cycleAfterQuit, cyclesAfterQuit, lastResize>>

\* catch (std::exception &e) { spdlog::error(...); return -5; }
CatchInitError ==
    /\ pc = "catch"
    /\ Return(ExitEngineInitFailed)
    /\ UNCHANGED <<cfgVars, sdlInit, atexitRegistered, m_mainWindow, sessVars, pipeVars, matVars, loopVars, histVars>>

\* ------------------------------------------------- main(): pipeline setup
\* A setup that creates the resource binding before it binds "Constants".
SetupOrderMutant ==
    << "PSODesc", "CreateVS", "CreatePS", "CreateConstantsBuffer", "CreatePSO",
       "CreateVertexBuffer", "CreateIndexBuffer", "CreateSRB", "BindConstants",
       "InitMatrices", "SDL_PollEvent" >>

\* The statements of main() between the try block and the loop, in program
\* order, ending at the first statement of the do-while body.
SetupOrder ==
    << "PSODesc", "CreateVS", "CreatePS", "CreateConstantsBuffer", "CreatePSO",
       "BindConstants", "CreateVertexBuffer", "CreateIndexBuffer", "CreateSRB",
       "InitMatrices", "SDL_PollEvent" >>

\* The statement that follows statement `label` of the setup.
SetupAfter(label) == SetupOrder[(CHOOSE i \in 1..Len(SetupOrder) : SetupOrder[i] = label) + 1]

\* RTVFormats[0] = m_pSwapChain->GetDesc().ColorBufferFormat; DSVFormat = ...
PSODesc ==
    /\ pc = "PSODesc"
    /\ IF m_pSwapChain.valid THEN pc' = SetupAfter("PSODesc") ELSE Fault
    /\ UNCHANGED <<cfgVars, procVars, sessVars, pipeVars, matVars, loopVars, histVars>>

\* m_pDevice->CreateShader(ShaderCI, &pVS); the result is not looked at.
CreateVS ==
    /\ pc = "CreateVS"
    /\ IF m_pDevice = NULL
       THEN /\ Fault
            /\ UNCHANGED <<pVS, buildFailure>>
       ELSE /\ pc' = SetupAfter("CreateVS")
            /\ \E ok \in BOOLEAN :
                IF ok
                THEN /\ pVS' = "VS"
                     /\ UNCHANGED buildFailure
                ELSE /\ buildFailure' = "vertex shader"
                     /\ UNCHANGED pVS
    /\ UNCHANGED <<cfgVars, procVars, sessVars, pPS, m_pVSConstants, m_pPSO, staticConstants, cubeVertexBuffer, cubeIndexBuffer, m_pSRB, matVars, loopVars, startupFailure, initFailure, quitQueued, cycleAfterQuit, cyclesAfterQuit, lastResize>>

\* m_pDevice->CreateShader(ShaderCI, &pPS); the result is not looked at.
CreatePS ==
    /\ pc = "CreatePS"
    /\ IF m_pDevice = NULL
       THEN /\ Fault
            /\ UNCHANGED <<pPS, buildFailure>>
       ELSE /\ pc' = SetupAfter("CreatePS")
            /\ \E ok \in BOOLEAN :
                IF ok
                THEN /\ pPS' = "PS"
                     /\ UNCHANGED buildFailure
                ELSE /\ buildFailure' = IF buildFailure = "none" THEN "pixel shader" ELSE buildFailure
                     /\ UNCHANGED pPS
    /\ UNCHANGED <<cfgVars, procVars, sessVars, pVS, m_pVSConstants, m_pPSO, staticConstants, cubeVertexBuffer, cubeIndexBuffer, m_pSRB, matVars, loopVars, startupFailure, initFailure, quitQueued, cycleAfterQuit, cyclesAfterQuit, lastResize>>

\* m_pDevice->CreateBuffer(CBDesc, nullptr, &m_pVSConstants);
CreateConstantsBuffer ==
    /\ pc = "CreateConstantsBuffer"
    /\ IF m_pDevice = NULL
       THEN /\ Fault
            /\ UNCHANGED m_pVSConstants
       ELSE /\ pc' = SetupAfter("CreateConstantsBuffer")
            /\ m_pVSConstants' = NewConstantsBuffer
    /\ UNCHANGED <<cfgVars, procVars, sessVars, pVS, pPS, m_pPSO, staticConstants, cubeVertexBuffer, cubeIndexBuffer, m_pSRB, matVars, loopVars, histVars>>

\* m_pDevice->CreateGraphicsPipelineState(PSOCreateInfo, &m_pPSO); a pipeline
\* needs both shader stages; the result is not looked at.
CreatePSO ==
    /\ pc = "CreatePSO"
    /\ IF m_pDevice = NULL
       THEN /\ Fault
            /\ UNCHANGED <<m_pPSO, buildFailure>>
       ELSE /\ pc' = SetupAfter("CreatePSO")
            /\ \E ok \in BOOLEAN :
                IF ok /\ pVS # NULL /\ pPS # NULL
                THEN /\ m_pPSO' = "PSO"
                     /\ UNCHANGED buildFailure
                ELSE /\ buildFailure' = IF buildFailure = "none" THEN "pipeline state" ELSE buildFailure
                     /\ UNCHANGED m_pPSO
    /\ UNCHANGED <<cfgVars, procVars, sessVars, pVS, pPS, m_pVSConstants, staticConstants, cubeVertexBuffer, cubeIndexBuffer, m_pSRB, matVars, loopVars, startupFailure, initFailure, quitQueued, cycleAfterQuit, cyclesAfterQuit, lastResize>>

\* m_pPSO->GetStaticVariableByName(SHADER_TYPE_VERTEX, "Constants")->Set(m_pVSConstants);
BindConstants ==
    /\ pc = "BindConstants"
    /\ IF m_pPSO = NULL
       THEN /\ Fault
            /\ UNCHANGED staticConstants
       ELSE /\ pc' = SetupAfter("BindConstants")
            /\ staticConstants' = "m_pVSConstants"
    /\ UNCHANGED <<cfgVars, procVars, sessVars, pVS, pPS, m_pVSConstants, m_pPSO, cubeVertexBuffer, cubeIndexBuffer, m_pSRB, matVars, loopVars, histVars>>

\* m_pDevice->CreateBuffer(VertBuffDesc, &VBData, &cubeVertexBuffer);
CreateVertexBuffer ==
    /\ pc = "CreateVertexBuffer"
    /\ IF m_pDevice = NULL
       THEN /\ Fault
            /\ UNCHANGED cubeVertexBuffer
       ELSE /\ pc' = SetupAfter("CreateVertexBuffer")
            /\ cubeVertexBuffer' = [valid |-> TRUE, bytes |-> CubeVertsCount * SizeofVertex]
    /\ UNCHANGED <<cfgVars, procVars, sessVars, pVS, pPS, m_pVSConstants, m_pPSO, staticConstants, cubeIndexBuffer, m_pSRB, matVars, loopVars, histVars>>

\* m_pDevice->CreateBuffer(IndBuffDesc, &IBData, &cubeIndexBuffer);
CreateIndexBuffer ==
    /\ pc = "CreateIndexBuffer"
    /\ IF m_pDevice = NULL
       THEN /\ Fault
            /\ UNCHANGED cubeIndexBuffer
       ELSE /\ pc' = SetupAfter("CreateIndexBuffer")
            /\ cubeIndexBuffer' = [valid |-> TRUE, bytes |-> Len(CubeIndices) * SizeofUint32]
    /\ UNCHANGED <<cfgVars, procVars, sessVars, pVS, pPS, m_pVSConstants, m_pPSO, staticConstants, cubeVertexBuffer, m_pSRB, matVars, loopVars, histVars>>

\* m_pPSO->CreateShaderResourceBinding(&m_pSRB, true);
CreateSRB ==
    /\ pc = "CreateSRB"
    /\ IF m_pPSO = NULL
       THEN /\ Fault
            /\ UNCHANGED m_pSRB
       ELSE /\ pc' = SetupAfter("CreateSRB")
            /\ m_pSRB' = "SRB"
    /\ UNCHANGED <<cfgVars, procVars, sessVars, pVS, pPS, m_pVSConstants, m_pPSO, staticConstants, cubeVertexBuffer, cubeIndexBuffer, matVars, loopVars, histVars>>

\* m_projMatrix = Projection(M_PI_2, 16.f / 9.f, ...); view and model = Identity();
\* then the do-while body is entered.
InitMatrices ==
    /\ pc = "InitMatrices"
    /\ m_projMatrix' = Projection(<<InitialAspectNum, InitialAspectDen>>)
    /\ m_viewMatrix' = IdentityMatrix
    /\ m_modelMatrix' = IdentityMatrix
    /\ pc' = SetupAfter("InitMatrices")
    /\ UNCHANGED <<cfgVars, procVars, sessVars, pipeVars, loopVars, histVars>>

\* ------------------------------------------------- main(): the frame loop
\* The statements of one iteration after the event loop, in program order,
\* ending at the loop condition.
RenderOrderMutant ==
    << "GetBackBufferViews", "SetRenderTargets", "SetVertexBuffers", "SetIndexBuffer",
       "SetPipelineState", "UpdateModelMatrix", "CommitShaderResources", "DrawIndexed",
       "MapConstants", "WriteConstants", "UnmapConstants", "ClearRenderTarget",
       "ClearDepthStencil", "Present", "LoopCond" >>

\* A render step whose mapping of the constants lasts until after the draw.
RenderOrderLateUnmapMutant ==
    << "GetBackBufferViews", "SetRenderTargets", "ClearRenderTarget", "ClearDepthStencil",
       "SetVertexBuffers", "SetIndexBuffer", "SetPipelineState", "UpdateModelMatrix",
       "MapConstants", "WriteConstants", "CommitShaderResources", "DrawIndexed",
       "UnmapConstants", "Present", "LoopCond" >>

RenderOrder ==
    << "GetBackBufferViews", "SetRenderTargets", "ClearRenderTarget", "ClearDepthStencil",
       "SetVertexBuffers", "SetIndexBuffer", "SetPipelineState", "UpdateModelMatrix",
       "MapConstants", "WriteConstants", "UnmapConstants", "CommitShaderResources",
       "DrawIndexed", "Present", "LoopCond" >>

\* The statement that follows statement `label` of the render step.
After(label) == RenderOrder[(CHOOSE i \in 1..Len(RenderOrder) : RenderOrder[i] = label) + 1]

Issue(name) == frameCalls' = Append(frameCalls, Call(name))

\* What handling one event does: the close flag, the projection and the
\* swapchain afterwards, the calls it made, and whether it went through a
\* null handle.
NoEffect == [close |-> m_windowShouldClose, proj |-> m_projMatrix, swapchain |-> m_pSwapChain, calls |-> <<>>, fault |-> FALSE]

\* A resize handler that recomputes the projection and stops there.
OnResizeMutant(width, height) ==
    [ NoEffect EXCEPT
        !.proj = Projection(AspectOf(width, height)),
        !.calls = << CallWH("OnResize", width, height), CallWH("ISwapChain::Resize", width, height) >> ]

\* A resize handler that derives the projection from the size the swapchain
\* has when the handler is entered.
OnResizeStaleMutant(width, height) ==
    [ NoEffect EXCEPT
        !.proj = Projection(AspectOf(m_pSwapChain.Width, m_pSwapChain.Height)),
        !.swapchain = [m_pSwapChain EXCEPT !.Width = width, !.Height = height],
        !.calls = << CallWH("OnResize", width, height), CallWH("ISwapChain::Resize", width, height) >> ]

\* A resize handler that replaces the swapchain by a new one of the new size.
OnResizeRecreateMutant(width, height) ==
    [ NoEffect EXCEPT
        !.proj = Projection(AspectOf(width, height)),
        !.swapchain = [valid |-> TRUE, id |-> m_pSwapChain.id + 1, Width |-> width, Height |-> height],
        !.calls = << CallWH("OnResize", width, height), CallWH("ISwapChain::Resize", width, height) >> ]

\* void OnResize(const int width, const int height)
OnResize(width, height) ==
    [ NoEffect EXCEPT
        !.proj = Projection(AspectOf(width, height)),
        !.swapchain = IF m_pSwapChain.valid
                      THEN [m_pSwapChain EXCEPT !.Width = width, !.Height = height]
                      ELSE m_pSwapChain,
        !.calls = IF m_pSwapChain.valid
                  THEN << CallWH("OnResize", width, height), CallWH("ISwapChain::Resize", width, height) >>
                  ELSE << CallWH("OnResize", width, height) >>,
        !.fault = ~m_pSwapChain.valid ]

\* An event loop that handles the quit event alone.
HandleEventMutant(ev) ==
    IF ev.type = "SDL_QUIT" THEN [NoEffect EXCEPT !.close = TRUE]
    ELSE NoEffect

\* An event loop whose quit case also resets the projection.
HandleEventQuitResetsMutant(ev) ==
    IF ev.type = "SDL_QUIT" THEN [NoEffect EXCEPT !.close = TRUE, !.proj = IdentityMatrix]
    ELSE IF IsResize(ev) THEN OnResize(ev.data1, ev.data2)
    ELSE NoEffect

\* switch (ev.type) {
\*   case SDL_QUIT: m_windowShouldClose = true; break;
\*   case SDL_WINDOWEVENT: switch (ev.window.event) {
\*       case SDL_WINDOWEVENT_RESIZED: case SDL_WINDOWEVENT_SIZE_CHANGED:
\*           OnResize(ev.window.data1, ev.window.data2); break;
\*       default: break; } break;
\*   default: break; }
\* Every break leaves a switch, none the while loop.
HandleEvent(ev) ==
    IF ev.type = "SDL_QUIT" THEN [NoEffect EXCEPT !.close = TRUE]
    ELSE IF IsResize(ev) THEN OnResize(ev.data1, ev.data2)
    ELSE NoEffect

\* What the record of calls gets for one SDL_PollEvent that yielded ev: an
\* entry for an event one of the cases handles, nothing for an event that
\* reaches `default: break`.
Polled(ev) ==
    IF ev.type = "SDL_QUIT" THEN << Call("SDL_PollEvent:SDL_QUIT") >>
    ELSE IF IsResize(ev) THEN << CallWH("SDL_PollEvent:resize", ev.data1, ev.data2) >>
    ELSE << >>

\* An event loop that a quit event leaves at once (`break` out of the while).
AfterEventMutant(ev) == IF ev.type = "SDL_QUIT" THEN "GetBackBufferViews" ELSE "SDL_PollEvent"

\* Where the thread goes after the body of the while loop has handled ev:
\* every break leaves a switch, so it is the loop's condition again.
AfterEvent(ev) == "SDL_PollEvent"

\* An event loop followed by `if (m_windowShouldClose) break;`.
AfterEventsMutant == IF m_windowShouldClose THEN "return 0" ELSE "GetBackBufferViews"

\* Where the thread goes when SDL_PollEvent returns 0: the first statement
\* after the while loop.
AfterEvents == "GetBackBufferViews"

\* while (SDL_PollEvent(&ev)) { switch ... }: one call of SDL_PollEvent and,
\* when it yields an event, the body of the while loop.  SDL_PollEvent first
\* pumps the window system (one of `arrivals` joins the queue: the events that
\* came in, and how many of them count against MaxEvents), then returns the
\* head of the queue, or 0 when it is empty.
Poll(arrivals) ==
    /\ pc = "SDL_PollEvent"
    /\ \E arr \in arrivals :
        LET q == queue \o arr.events IN
        /\ pumped' = pumped + arr.counted
        /\ quitQueued' = (quitQueued \/ \E i \in 1..Len(arr.events) : arr.events[i] = QuitEvent)
        /\ IF q = <<>>
           THEN /\ queue' = q
                /\ pc' = AfterEvents
                /\ frameCalls' = Append(frameCalls, Call("SDL_PollEvent:0"))
                /\ UNCHANGED <<m_windowShouldClose, m_projMatrix, m_pSwapChain, lastResize>>
           ELSE LET ev == Head(q)
                    e == HandleEvent(ev)
                IN  /\ queue' = Tail(q)
                    /\ m_windowShouldClose' = e.close
                    /\ m_projMatrix' = e.proj
                    /\ m_pSwapChain' = e.swapchain
                    /\ frameCalls' = frameCalls \o Polled(ev) \o e.calls
                    /\ lastResize' = IF IsResize(ev) THEN <<ev.data1, ev.data2>> ELSE lastResize
                    /\ pc' = IF e.fault THEN "crashed" ELSE AfterEvent(ev)
    /\ UNCHANGED <<cfgVars, procVars, pFactory, m_pDevice, m_pImmediateContext, pipeVars, m_viewMatrix, m_modelMatrix, pRTV, pDSV, drawAttrs, ticks, startupFailure, initFailure, buildFailure, cycleAfterQuit, cyclesAfterQuit>>

\* The batches of events a run of at most MaxEvents events can still get.
Arrivals == {[events |-> b, counted |-> Len(b)] : b \in SeqsUpTo(Events, MaxEvents - pumped)}

PollEvent == Poll(Arrivals)

\* What a window system under steady input (pointer motion, key repeat) can
\* deliver between two polls: events that no case handles, as long as the
\* queue holds no more than MaxBacklog.  They are not counted: there is no
\* end to them.
LoadArrivals == {[events |-> b, counted |-> 0] : b \in SeqsUpTo({OtherEvent}, MaxBacklog - Len(queue))}

\* The same call under such a window system.
PollEventUnderLoad == Poll(LoadArrivals)

\* What every render statement below leaves alone besides what it names.
RenderFrame == UNCHANGED <<cfgVars, procVars, sessVars, pVS, pPS, m_pPSO, staticConstants, cubeVertexBuffer, cubeIndexBuffer, m_pSRB, m_projMatrix, m_viewMatrix, m_windowShouldClose, queue, pumped, startupFailure, initFailure, buildFailure, quitQueued, lastResize>>

\* auto *pRTV = m_pSwapChain->GetCurrentBackBufferRTV(); auto *pDSV = ...->GetDepthBufferDSV();
GetBackBufferViews ==
    /\ pc = "GetBackBufferViews"
    /\ IF m_pSwapChain.valid
       THEN /\ pc' = After("GetBackBufferViews")
            /\ pRTV' = [valid |-> TRUE, Width |-> m_pSwapChain.Width, Height |-> m_pSwapChain.Height]
            /\ pDSV' = [valid |-> TRUE, Width |-> m_pSwapChain.Width, Height |-> m_pSwapChain.Height]
            /\ Issue("GetBackBufferViews")
            /\ cycleAfterQuit' = quitQueued
       ELSE /\ Fault
            /\ UNCHANGED <<pRTV, pDSV, frameCalls, cycleAfterQuit>>
    /\ RenderFrame
    /\ UNCHANGED <<m_pVSConstants, m_modelMatrix, drawAttrs, ticks, cyclesAfterQuit>>

\* A statement of the render step that is one call on m_pImmediateContext and
\* changes nothing the model keeps but the record of calls.
ContextCall(label) ==
    /\ pc = label
    /\ IF m_pImmediateContext # NULL
       THEN /\ pc' = After(label)
            /\ Issue(label)
       ELSE /\ Fault
            /\ UNCHANGED frameCalls
    /\ RenderFrame
    /\ UNCHANGED <<m_pVSConstants, m_modelMatrix, pRTV, pDSV, drawAttrs, ticks, cycleAfterQuit, cyclesAfterQuit>>

\* m_pImmediateContext->SetRenderTargets(1, &pRTV, pDSV, ...);
SetRenderTargets == ContextCall("SetRenderTargets")

\* m_pImmediateContext->ClearRenderTarget(pRTV, ClearColor.Data(), ...);
ClearRenderTarget == ContextCall("ClearRenderTarget")

\* m_pImmediateContext->ClearDepthStencil(pDSV, CLEAR_DEPTH_FLAG, 1.f, 0, ...);
ClearDepthStencil == ContextCall("ClearDepthStencil")

\* m_pImmediateContext->SetVertexBuffers(0, 1, pBuffs, &offset, ...);
SetVertexBuffers == ContextCall("SetVertexBuffers")

\* m_pImmediateContext->SetIndexBuffer(cubeIndexBuffer, 0, ...);
SetIndexBuffer == ContextCall("SetIndexBuffer")

\* m_pImmediateContext->SetPipelineState(m_pPSO);
SetPipelineState == ContextCall("SetPipelineState")

\* m_modelMatrix = RotationY(SDL_GetTicks() / 500.f) * Translation(0.f, 0.f, 5.f);
UpdateModelMatrix ==
    /\ pc = "UpdateModelMatrix"
    /\ \E t \in ticks..MaxTicks :
        /\ ticks' = t
        /\ m_modelMatrix' = ModelAt(t)
    /\ pc' = After("UpdateModelMatrix")
    /\ Issue("UpdateModelMatrix")
    /\ RenderFrame
    /\ UNCHANGED <<m_pVSConstants, pRTV, pDSV, drawAttrs, cycleAfterQuit, cyclesAfterQuit>>

\* { dg::MapHelper<float4x4> CBConstants(m_pImmediateContext, m_pVSConstants, MAP_WRITE, MAP_FLAG_DISCARD);
MapConstants ==
    /\ pc = "MapConstants"
    /\ IF m_pImmediateContext # NULL
       THEN /\ pc' = After("MapConstants")
            /\ m_pVSConstants' = [m_pVSConstants EXCEPT !.mapped = TRUE, !.staging = NoConstants]
            /\ Issue("MapConstants")
       ELSE /\ Fault
            /\ UNCHANGED <<m_pVSConstants, frameCalls>>
    /\ RenderFrame
    /\ UNCHANGED <<m_modelMatrix, pRTV, pDSV, drawAttrs, ticks, cycleAfterQuit, cyclesAfterQuit>>

\* *CBConstants = (m_modelMatrix * m_viewMatrix * m_projMatrix).Transpose();
WriteConstants ==
    /\ pc = "WriteConstants"
    /\ pc' = After("WriteConstants")
    /\ m_pVSConstants' = [m_pVSConstants EXCEPT !.staging = TransposedMVP(m_modelMatrix, m_viewMatrix, m_projMatrix)]
    /\ Issue("WriteConstants")
    /\ RenderFrame
    /\ UNCHANGED <<m_modelMatrix, pRTV, pDSV, drawAttrs, ticks, cycleAfterQuit, cyclesAfterQuit>>

\* }  (the MapHelper leaves scope: the buffer is unmapped)
UnmapConstants ==
    /\ pc = "UnmapConstants"
    /\ pc' = After("UnmapConstants")
    /\ m_pVSConstants' = [m_pVSConstants EXCEPT !.mapped = FALSE, !.data = m_pVSConstants.staging]
    /\ Issue("UnmapConstants")
    /\ RenderFrame
    /\ UNCHANGED <<m_modelMatrix, pRTV, pDSV, drawAttrs, ticks, cycleAfterQuit, cyclesAfterQuit>>

\* m_pImmediateContext->CommitShaderResources(m_pSRB, ...);
CommitShaderResources == ContextCall("CommitShaderResources")

\* drawAttrs.IndexType = VT_UINT32; drawAttrs.NumIndices = 36; ...
\* m_pImmediateContext->DrawIndexed(drawAttrs);
DrawIndexed ==
    /\ pc = "DrawIndexed"
    /\ IF m_pImmediateContext # NULL
       THEN /\ pc' = After("DrawIndexed")
            /\ drawAttrs' = [call |-> "DrawIndexed", count |-> NumIndices, indexBytes |-> SizeofUint32]
            /\ Issue("DrawIndexed")
       ELSE /\ Fault
            /\ UNCHANGED <<drawAttrs, frameCalls>>
    /\ RenderFrame
    /\ UNCHANGED <<m_pVSConstants, m_modelMatrix, pRTV, pDSV, ticks, cycleAfterQuit, cyclesAfterQuit>>

\* m_pSwapChain->Present(videoMode.syncInterval);
Present ==
    /\ pc = "Present"
    /\ IF m_pSwapChain.valid
       THEN /\ pc' = After("Present")
            /\ Issue("Present")
            /\ cyclesAfterQuit' = IF cycleAfterQuit THEN cyclesAfterQuit + 1 ELSE cyclesAfterQuit
       ELSE /\ Fault
            /\ UNCHANGED <<frameCalls, cyclesAfterQuit>>
    /\ RenderFrame
    /\ UNCHANGED <<m_pVSConstants, m_modelMatrix, pRTV, pDSV, drawAttrs, ticks, cycleAfterQuit>>

LoopContinuesMutant == TRUE

\* } while (!m_windowShouldClose);
LoopContinues == ~m_windowShouldClose

LoopCond ==
    /\ pc = "LoopCond"
    /\ IF LoopContinues
       THEN /\ pc' = "SDL_PollEvent"
            /\ frameCalls' = <<>>
       ELSE /\ pc' = "return 0"
            /\ UNCHANGED frameCalls
    /\ RenderFrame
    /\ UNCHANGED <<m_pVSConstants, m_modelMatrix, pRTV, pDSV, drawAttrs, ticks, cycleAfterQuit, cyclesAfterQuit>>

\* return 0;
ReturnOK ==
    /\ pc = "return 0"
    /\ Return(ExitOK)
    /\ UNCHANGED <<cfgVars, sdlInit, atexitRegistered, m_mainWindow, sessVars, pipeVars, matVars, loopVars, histVars>>

\* ---------------------------------------------------------- specification
Next ==
    \/ SDL_Init
    \/ RegisterAtExit
    \/ SDL_CreateWindow
    \/ IGE_Switch
    \/ IGE_GetEngineFactory
    \/ IGE_CreateDeviceAndContexts
    \/ IGE_CreateSwapChain
    \/ CatchInitError
    \/ PSODesc
    \/ CreateVS
    \/ CreatePS
    \/ CreateConstantsBuffer
    \/ CreatePSO
    \/ BindConstants
    \/ CreateVertexBuffer
    \/ CreateIndexBuffer
    \/ CreateSRB
    \/ InitMatrices
    \/ PollEvent
    \/ GetBackBufferViews
    \/ SetRenderTargets
    \/ ClearRenderTarget
    \/ ClearDepthStencil
    \/ SetVertexBuffers
    \/ SetIndexBuffer
    \/ SetPipelineState
    \/ UpdateModelMatrix
    \/ MapConstants
    \/ WriteConstants
    \/ UnmapConstants
    \/ CommitShaderResources
    \/ DrawIndexed
    \/ Present
    \/ LoopCond
    \/ ReturnOK
    \/ AtExit

Spec == Init /\ [][Next]_vars

\* The thread runs whenever it can: every statement it reaches is executed.
FairSpec == Spec /\ WF_vars(Next)

\* The program under a window system that may have input for every poll.
NextUnderLoad == Next \/ PollEventUnderLoad

SpecUnderLoad == Init /\ [][NextUnderLoad]_vars /\ WF_vars(NextUnderLoad)

\* ================================================ the triangle variant
\* The second main() of the repository (src/unnamed/part_001): the same
\* bootstrap with an OpenGL case in the switch, no buffers, no resize
\* handling, and a non-indexed draw of the three vertices its vertex shader
\* holds.  Its statements are the pc values that start with "T:".

\* VideoMode videoMode{1280, 720, 1, WINDOWED}
TriVideoModeWidth == 1280
TriVideoModeHeight == 720
\* drawAttrs.NumVertices = 3
NumVertices == 3
\* float4 Pos[3]; float3 Col[3]; in the vertex shader
TriShaderVertexCount == 3

\* The case labels of the switch on platform p.
Tri_CompiledCases(p) == IF p = "win32" THEN {"D3D11", "D3D12", "GL", "VULKAN"} ELSE {"GL", "VULKAN"}

InitTriangle ==
    /\ platform \in Platforms
    /\ renderDeviceType \in RenderDeviceTypes
    /\ pc = "T:SDL_Init"
    /\ returned = FALSE
    /\ exitCode = 0
    /\ sdlInit = FALSE
    /\ atexitRegistered = FALSE
    /\ m_mainWindow = NULL
    /\ pFactory = NULL
    /\ m_pDevice = NULL
    /\ m_pImmediateContext = NULL
    /\ m_pSwapChain = NullSwapChain
    /\ pVS = NULL
    /\ pPS = NULL
    /\ m_pVSConstants = NullBuffer
    /\ m_pPSO = NULL
    /\ staticConstants = NULL
    /\ cubeVertexBuffer = NullGeometry
    /\ cubeIndexBuffer = NullGeometry
    /\ m_pSRB = NULL
    /\ m_projMatrix = ZeroMatrix
    /\ m_viewMatrix = ZeroMatrix
    /\ m_modelMatrix = ZeroMatrix
    /\ m_windowShouldClose = FALSE
    /\ queue = <<>>
    /\ pumped = 0
    /\ pRTV = NullView
    /\ pDSV = NullView
    /\ frameCalls = <<>>
    /\ drawAttrs = NoDraw
    /\ ticks = 0
    /\ startupFailure = "none"
    /\ initFailure = "none"
    /\ buildFailure = "none"
    /\ quitQueued = FALSE
    /\ cycleAfterQuit = FALSE
    /\ cyclesAfterQuit = 0
    /\ lastResize = NoSize

\* What the triangle variant never touches.
TriUnused == UNCHANGED <<cfgVars, m_pVSConstants, staticConstants, cubeVertexBuffer, cubeIndexBuffer, m_pSRB, matVars, ticks, lastResize>>

\* if (SDL_Init(...) != 0) return -1;
Tri_SDL_Init ==
    /\ pc = "T:SDL_Init"
    /\ \E ok \in BOOLEAN :
        IF ok
        THEN /\ sdlInit' = TRUE
             /\ pc' = "T:atexit"
             /\ UNCHANGED <<returned, exitCode, startupFailure>>
        ELSE /\ Return(ExitSDLInitFailed)
             /\ startupFailure' = "SDL_Init"
             /\ UNCHANGED sdlInit
    /\ TriUnused
    /\ UNCHANGED <<atexitRegistered, m_mainWindow, sessVars, pVS, pPS, m_pPSO, m_windowShouldClose, queue, pumped, pRTV, pDSV, frameCalls, drawAttrs, initFailure, buildFailure, quitQueued, cycleAfterQuit, cyclesAfterQuit>>

\* atexit(cleanup);
Tri_RegisterAtExit ==
    /\ pc = "T:atexit"
    /\ atexitRegistered' = TRUE
    /\ pc' = "T:SDL_CreateWindow"
    /\ TriUnused
    /\ UNCHANGED <<returned, exitCode, sdlInit, m_mainWindow, sessVars, pVS, pPS, m_pPSO, m_windowShouldClose, queue, pumped, pRTV, pDSV, frameCalls, drawAttrs, startupFailure, initFailure, buildFailure, quitQueued, cycleAfterQuit, cyclesAfterQuit>>

\* m_mainWindow = SDL_CreateWindow(...); if (m_mainWindow == nullptr) return -3;
\* SDL_GL_CreateContext(m_mainWindow);
Tri_SDL_CreateWindow ==
    /\ pc = "T:SDL_CreateWindow"
    /\ \E ok \in BOOLEAN :
        IF ok
        THEN /\ m_mainWindow' = "window"
             /\ pc' = "T:InitializeGraphicsEngine"
             /\ UNCHANGED <<returned, exitCode, startupFailure>>
        ELSE /\ Return(ExitWindowFailed)
             /\ startupFailure' = "SDL_CreateWindow"
             /\ UNCHANGED m_mainWindow
    /\ TriUnused
    /\ UNCHANGED <<sdlInit, atexitRegistered, sessVars, pVS, pPS, m_pPSO, m_windowShouldClose, queue, pumped, pRTV, pDSV, frameCalls, drawAttrs, initFailure, buildFailure, quitQueued, cycleAfterQuit, cyclesAfterQuit>>

\* InitializeGraphicsEngine(): the switch, and the factory of the case taken
\* (dg::GetEngineFactoryXxx() is called by name here).
Tri_IGE_Switch ==
    /\ pc = "T:InitializeGraphicsEngine"
    /\ IF renderDeviceType \in Tri_CompiledCases(platform)
       THEN /\ pFactory' = renderDeviceType
            /\ pc' = IF renderDeviceType = "GL" THEN "T:CreateDeviceAndSwapChainGL" ELSE "T:CreateDeviceAndContexts"
            /\ UNCHANGED initFailure
       ELSE /\ pc' = "T:catch"
            /\ initFailure' = "unsupported"
            /\ UNCHANGED pFactory
    /\ TriUnused
    /\ UNCHANGED <<procVars, m_pDevice, m_pImmediateContext, m_pSwapChain, pVS, pPS, m_pPSO, m_windowShouldClose, queue, pumped, pRTV, pDSV, frameCalls, drawAttrs, startupFailure, buildFailure, quitQueued, cycleAfterQuit, cyclesAfterQuit>>

\* pFactoryOpenGL->CreateDeviceAndSwapChainGL(EngineCI, &m_pDevice, &m_pImmediateContext, SCDesc, &m_pSwapChain);
Tri_IGE_CreateDeviceAndSwapChainGL ==
    /\ pc = "T:CreateDeviceAndSwapChainGL"
    /\ \E ok \in BOOLEAN :
        IF ok
        THEN /\ m_pDevice' = "device"
             /\ m_pImmediateContext' = "context"
             /\ m_pSwapChain' = NewSwapChain(TriVideoModeWidth, TriVideoModeHeight)
             /\ UNCHANGED initFailure
        ELSE /\ initFailure' = "device"
             /\ UNCHANGED <<m_pDevice, m_pImmediateContext, m_pSwapChain>>
    /\ pc' = "T:PSODesc"
    /\ TriUnused
    /\ UNCHANGED <<procVars, pFactory, pVS, pPS, m_pPSO, m_windowShouldClose, queue, pumped, pRTV, pDSV, frameCalls, drawAttrs, startupFailure, buildFailure, quitQueued, cycleAfterQuit, cyclesAfterQuit>>

\* pFactory->CreateDeviceAndContextsXxx(EngineCI, &m_pDevice, &m_pImmediateContext);
Tri_IGE_CreateDeviceAndContexts ==
    /\ pc = "T:CreateDeviceAndContexts"
    /\ \E ok \in BOOLEAN :
        IF ok
        THEN /\ m_pDevice' = "device"
             /\ m_pImmediateContext' = "context"
             /\ UNCHANGED initFailure
        ELSE /\ initFailure' = "device"
             /\ UNCHANGED <<m_pDevice, m_pImmediateContext>>
    /\ pc' = "T:CreateSwapChain"
    /\ TriUnused
    /\ UNCHANGED <<procVars, pFactory, m_pSwapChain, pVS, pPS, m_pPSO, m_windowShouldClose, queue, pumped, pRTV, pDSV, frameCalls, drawAttrs, startupFailure, buildFailure, quitQueued, cycleAfterQuit, cyclesAfterQuit>>

\* pFactory->CreateSwapChainXxx(m_pDevice, m_pImmediateContext, SCDesc, ..., &m_pSwapChain); break;
Tri_IGE_CreateSwapChain ==
    /\ pc = "T:CreateSwapChain"
    /\ \E ok \in BOOLEAN :
        IF ok /\ m_pDevice # NULL
        THEN /\ m_pSwapChain' = NewSwapChain(TriVideoModeWidth, TriVideoModeHeight)
             /\ UNCHANGED initFailure
        ELSE /\ initFailure' = IF initFailure = "none" THEN "swapchain" ELSE initFailure
             /\ UNCHANGED m_pSwapChain
    /\ pc' = "T:PSODesc"
    /\ TriUnused
    /\ UNCHANGED <<procVars, pFactory, m_pDevice, m_pImmediateContext, pVS, pPS, m_pPSO, m_windowShouldClose, queue, pumped, pRTV, pDSV, frameCalls, drawAttrs, startupFailure, buildFailure, quitQueued, cycleAfterQuit, cyclesAfterQuit>>

\* catch (std::exception &e) { spdlog::error(...); return -5; }
Tri_CatchInitError ==
    /\ pc = "T:catch"
    /\ Return(ExitEngineInitFailed)
    /\ UNCHANGED <<cfgVars, sdlInit, atexitRegistered, m_mainWindow, sessVars, pipeVars, matVars, loopVars, histVars>>

\* RTVFormats[0] = m_pSwapChain->GetDesc().ColorBufferFormat; DSVFormat = ...
Tri_PSODesc ==
    /\ pc = "T:PSODesc"
    /\ IF m_pSwapChain.valid THEN pc' = "T:CreateVS" ELSE Fault
    /\ UNCHANGED <<cfgVars, procVars, sessVars, pipeVars, matVars, loopVars, histVars>>

\* m_pDevice->CreateShader(ShaderCI, &pVS);
Tri_CreateVS ==
    /\ pc = "T:CreateVS"
    /\ IF m_pDevice = NULL
       THEN /\ Fault
            /\ UNCHANGED <<pVS, buildFailure>>
       ELSE /\ pc' = "T:CreatePS"
            /\ \E ok \in BOOLEAN :
                IF ok
                THEN /\ pVS' = "VS"
                     /\ UNCHANGED buildFailure
                ELSE /\ buildFailure' = "vertex shader"
                     /\ UNCHANGED pVS
    /\ TriUnused
    /\ UNCHANGED <<procVars, sessVars, pPS, m_pPSO, m_windowShouldClose, queue, pumped, pRTV, pDSV, frameCalls, drawAttrs, startupFailure, initFailure, quitQueued, cycleAfterQuit, cyclesAfterQuit>>

\* m_pDevice->CreateShader(ShaderCI, &pPS);
Tri_CreatePS ==
    /\ pc = "T:CreatePS"
    /\ IF m_pDevice = NULL
       THEN /\ Fault
            /\ UNCHANGED <<pPS, buildFailure>>
       ELSE /\ pc' = "T:CreatePSO"
            /\ \E ok \in BOOLEAN :
                IF ok
                THEN /\ pPS' = "PS"
                     /\ UNCHANGED buildFailure
                ELSE /\ buildFailure' = IF buildFailure = "none" THEN "pixel shader" ELSE buildFailure
                     /\ UNCHANGED pPS
    /\ TriUnused
    /\ UNCHANGED <<procVars, sessVars, pVS, m_pPSO, m_windowShouldClose, queue, pumped, pRTV, pDSV, frameCalls, drawAttrs, startupFailure, initFailure, quitQueued, cycleAfterQuit, cyclesAfterQuit>>

\* m_pDevice->CreateGraphicsPipelineState(PSOCreateInfo, &m_pPSO); then the
\* do-while body is entered.
Tri_CreatePSO ==
    /\ pc = "T:CreatePSO"
    /\ IF m_pDevice = NULL
       THEN /\ Fault
            /\ UNCHANGED <<m_pPSO, buildFailure>>
       ELSE /\ pc' = "T:SDL_PollEvent"
            /\ \E ok \in BOOLEAN :
                IF ok /\ pVS # NULL /\ pPS # NULL
                THEN /\ m_pPSO' = "PSO"
                     /\ UNCHANGED buildFailure
                ELSE /\ buildFailure' = IF buildFailure = "none" THEN "pipeline state" ELSE buildFailure
                     /\ UNCHANGED m_pPSO
    /\ TriUnused
    /\ UNCHANGED <<procVars, sessVars, pVS, pPS, m_windowShouldClose, queue, pumped, pRTV, pDSV, frameCalls, drawAttrs, startupFailure, initFailure, quitQueued, cycleAfterQuit, cyclesAfterQuit>>

\* The statements of one iteration after the event loop, in program order.
Tri_RenderOrder ==
    << "T:GetBackBufferViews", "T:SetRenderTargets", "T:ClearRenderTarget", "T:ClearDepthStencil",
       "T:SetPipelineState", "T:Draw", "T:Present", "T:LoopCond" >>

Tri_After(label) == Tri_RenderOrder[(CHOOSE i \in 1..Len(Tri_RenderOrder) : Tri_RenderOrder[i] = label) + 1]

\* while (SDL_PollEvent(&ev)) { if (ev.type == SDL_QUIT) { m_windowShouldClose = true; break; } }
\* The break leaves the while loop; any other event is dropped.
Tri_PollEvent ==
    /\ pc = "T:SDL_PollEvent"
    /\ \E batch \in SeqsUpTo(Events, MaxEvents - pumped) :
        LET q == queue \o batch IN
        /\ pumped' = pumped + Len(batch)
        /\ quitQueued' = (quitQueued \/ \E i \in 1..Len(batch) : batch[i] = QuitEvent)
        /\ IF q = <<>>
           THEN /\ queue' = q
                /\ pc' = "T:GetBackBufferViews"
                /\ frameCalls' = Append(frameCalls, Call("SDL_PollEvent:0"))
                /\ UNCHANGED m_windowShouldClose
           ELSE /\ queue' = Tail(q)
                /\ frameCalls' = frameCalls \o Polled(Head(q))
                /\ IF Head(q).type = "SDL_QUIT"
                   THEN /\ m_windowShouldClose' = TRUE
                        /\ pc' = "T:GetBackBufferViews"
                   ELSE /\ pc' = "T:SDL_PollEvent"
                        /\ UNCHANGED m_windowShouldClose
    /\ TriUnused
    /\ UNCHANGED <<procVars, sessVars, pVS, pPS, m_pPSO, pRTV, pDSV, drawAttrs, startupFailure, initFailure, buildFailure, cycleAfterQuit, cyclesAfterQuit>>

\* auto* pRTV = m_pSwapChain->GetCurrentBackBufferRTV(); auto* pDSV = ...->GetDepthBufferDSV();
Tri_GetBackBufferViews ==
    /\ pc = "T:GetBackBufferViews"
    /\ IF m_pSwapChain.valid
       THEN /\ pc' = Tri_After("T:GetBackBufferViews")
            /\ pRTV' = [valid |-> TRUE, Width |-> m_pSwapChain.Width, Height |-> m_pSwapChain.Height]
            /\ pDSV' = [valid |-> TRUE, Width |-> m_pSwapChain.Width, Height |-> m_pSwapChain.Height]
            /\ Issue("GetBackBufferViews")
            /\ cycleAfterQuit' = quitQueued
       ELSE /\ Fault
            /\ UNCHANGED <<pRTV, pDSV, frameCalls, cycleAfterQuit>>
    /\ RenderFrame
    /\ UNCHANGED <<m_pVSConstants, m_modelMatrix, drawAttrs, ticks, cyclesAfterQuit>>

\* One call on m_pImmediateContext that changes nothing the model keeps but
\* the record of calls.
Tri_ContextCall(label, name) ==
    /\ pc = label
    /\ IF m_pImmediateContext # NULL
       THEN /\ pc' = Tri_After(label)
            /\ Issue(name)
       ELSE /\ Fault
            /\ UNCHANGED frameCalls
    /\ RenderFrame
    /\ UNCHANGED <<m_pVSConstants, m_modelMatrix, pRTV, pDSV, drawAttrs, ticks, cycleAfterQuit, cyclesAfterQuit>>

\* m_pImmediateContext->SetRenderTargets(1, &pRTV, pDSV, ...);
Tri_SetRenderTargets == Tri_ContextCall("T:SetRenderTargets", "SetRenderTargets")

\* m_pImmediateContext->ClearRenderTarget(pRTV, ClearColor.Data(), ...);
Tri_ClearRenderTarget == Tri_ContextCall("T:ClearRenderTarget", "ClearRenderTarget")

\* m_pImmediateContext->ClearDepthStencil(pDSV, CLEAR_DEPTH_FLAG, 1.f, 0, ...);
Tri_ClearDepthStencil == Tri_ContextCall("T:ClearDepthStencil", "ClearDepthStencil")

\* m_pImmediateContext->SetPipelineState(m_pPSO);
Tri_SetPipelineState == Tri_ContextCall("T:SetPipelineState", "SetPipelineState")

\* dg::DrawAttribs drawAttrs; drawAttrs.NumVertices = 3; m_pImmediateContext->Draw(drawAttrs);
Tri_Draw ==
    /\ pc = "T:Draw"
    /\ IF m_pImmediateContext # NULL
       THEN /\ pc' = Tri_After("T:Draw")
            /\ drawAttrs' = [call |-> "Draw", count |-> NumVertices, indexBytes |-> 0]
            /\ Issue("Draw")
       ELSE /\ Fault
            /\ UNCHANGED <<drawAttrs, frameCalls>>
    /\ RenderFrame
    /\ UNCHANGED <<m_pVSConstants, m_modelMatrix, pRTV, pDSV, ticks, cycleAfterQuit, cyclesAfterQuit>>

\* m_pSwapChain->Present();
Tri_Present ==
    /\ pc = "T:Present"
    /\ IF m_pSwapChain.valid
       THEN /\ pc' = Tri_After("T:Present")
            /\ Issue("Present")
            /\ cyclesAfterQuit' = IF cycleAfterQuit THEN cyclesAfterQuit + 1 ELSE cyclesAfterQuit
       ELSE /\ Fault
            /\ UNCHANGED <<frameCalls, cyclesAfterQuit>>
    /\ RenderFrame
    /\ UNCHANGED <<m_pVSConstants, m_modelMatrix, pRTV, pDSV, drawAttrs, ticks, cycleAfterQuit>>

\* } while (!m_windowShouldClose);
Tri_LoopCond ==
    /\ pc = "T:LoopCond"
    /\ IF ~m_windowShouldClose
       THEN /\ pc' = "T:SDL_PollEvent"
            /\ frameCalls' = <<>>
       ELSE /\ pc' = "T:return 0"
            /\ UNCHANGED frameCalls
    /\ RenderFrame
    /\ UNCHANGED <<m_pVSConstants, m_modelMatrix, pRTV, pDSV, drawAttrs, ticks, cycleAfterQuit, cyclesAfterQuit>>

\* return 0;
Tri_ReturnOK ==
    /\ pc = "T:return 0"
    /\ Return(ExitOK)
    /\ UNCHANGED <<cfgVars, sdlInit, atexitRegistered, m_mainWindow, sessVars, pipeVars, matVars, loopVars, histVars>>

NextTriangle ==
    \/ Tri_SDL_Init
    \/ Tri_RegisterAtExit
    \/ Tri_SDL_CreateWindow
    \/ Tri_IGE_Switch
    \/ Tri_IGE_CreateDeviceAndSwapChainGL
    \/ Tri_IGE_CreateDeviceAndContexts
    \/ Tri_IGE_CreateSwapChain
    \/ Tri_CatchInitError
    \/ Tri_PSODesc
    \/ Tri_CreateVS
    \/ Tri_CreatePS
    \/ Tri_CreatePSO
    \/ Tri_PollEvent
    \/ Tri_GetBackBufferViews
    \/ Tri_SetRenderTargets
    \/ Tri_ClearRenderTarget
    \/ Tri_ClearDepthStencil
    \/ Tri_SetPipelineState
    \/ Tri_Draw
    \/ Tri_Present
    \/ Tri_LoopCond
    \/ Tri_ReturnOK
    \/ AtExit

\* The triangle variant alone.
SpecTriangle == InitTriangle /\ [][NextTriangle]_vars

\* Either variant of the program.
InitVariants == Init \/ InitTriangle

NextVariants == Next \/ NextTriangle

SpecVariants == InitVariants /\ [][NextVariants]_vars

\* ================================================================ claims
\* The calls of the current iteration named `name`, by position.
Positions(name) == {i \in 1..Len(frameCalls) : frameCalls[i].call = name}

\* Every call named b the iteration has issued came after a call named a.
Precedes(a, b) == \A j \in Positions(b) : \E i \in Positions(a) : i < j

AtMostOnce(name) == Cardinality(Positions(name)) <= 1

\* The calls of the render step the ordering claim names.
OrderedCalls == {"SetRenderTargets", "ClearRenderTarget", "ClearDepthStencil", "WriteConstants", "DrawIndexed", "Present"}

\* Every call that belongs to the render step of an iteration.
RenderCalls == {"GetBackBufferViews", "SetRenderTargets", "ClearRenderTarget", "ClearDepthStencil", "SetVertexBuffers", "SetIndexBuffer", "SetPipelineState", "UpdateModelMatrix", "MapConstants", "WriteConstants", "UnmapConstants", "CommitShaderResources", "DrawIndexed", "Present"}

\* main() has returned 0.
ExitedOK == returned /\ exitCode = 0

C2_RenderOrdering ==
    /\ Precedes("SetRenderTargets", "ClearRenderTarget")
    /\ Precedes("SetRenderTargets", "ClearDepthStencil")
    /\ Precedes("ClearRenderTarget", "DrawIndexed")
    /\ Precedes("ClearDepthStencil", "DrawIndexed")
    /\ Precedes("WriteConstants", "DrawIndexed")
    /\ Precedes("UnmapConstants", "DrawIndexed")
    /\ Precedes("DrawIndexed", "Present")
    /\ \A c \in OrderedCalls : AtMostOnce(c)

\* C2 witness: an iteration that has issued its whole render step and its present.
C2_Witness == pc = "LoopCond" /\ \A c \in OrderedCalls : Positions(c) # {}

\* C3 (as claimed): when InitializeGraphicsEngine has returned normally (the
\* thread is at the statement after the try block) the device, the immediate
\* context and the swapchain are all non-null.
C3_InitAllOrError ==
    pc = "PSODesc" => (m_pDevice # NULL /\ m_pImmediateContext # NULL /\ m_pSwapChain.valid)

\* C4: every resize event an iteration dequeues is followed at once by
\* OnResize and the swapchain's Resize with the event's size, the projection
\* and the swapchain carry the size of the last one when polling ends, and
\* all of it comes before the first call of that iteration's render step.
C4_ResizeBeforeRender ==
    /\ \A i \in Positions("SDL_PollEvent:resize") :
        /\ i + 2 <= Len(frameCalls)
        /\ frameCalls[i + 1] = CallWH("OnResize", frameCalls[i].a, frameCalls[i].b)
        /\ frameCalls[i + 2] = CallWH("ISwapChain::Resize", frameCalls[i].a, frameCalls[i].b)
        /\ \A j \in 1..Len(frameCalls) : frameCalls[j].call \in RenderCalls => i + 2 < j
    /\ \A j \in Positions("OnResize") : j > 1 /\ frameCalls[j - 1].call = "SDL_PollEvent:resize"

\* C4 witness: a frame being rendered in an iteration that dequeued a resize event.
C4_Witness == pc = "DrawIndexed" /\ Positions("SDL_PollEvent:resize") # {}

\* The draw calls the current iteration has issued, by position.
Draws == Positions("DrawIndexed") \cup Positions("Draw")

\* C5: every iteration issues exactly one draw call, after its clears and
\* before its present, and the call covers the uploaded geometry: 36 indices,
\* the whole index buffer, in the cube variant; 3 vertices, the vertices the
\* vertex shader holds, in the triangle variant.
C5_OneDrawPerFrame ==
    /\ Cardinality(Draws) <= 1
    /\ \A p \in Positions("Present") :
        \E d \in Draws :
            /\ d < p
            /\ \E c \in Positions("ClearRenderTarget") : c < d
            /\ \E c \in Positions("ClearDepthStencil") : c < d
    /\ pc \in {"LoopCond", "T:LoopCond"} => Cardinality(Draws) = 1 /\ Positions("Present") # {}
    /\ Positions("DrawIndexed") # {} =>
        /\ drawAttrs.call = "DrawIndexed"
        /\ drawAttrs.count = 36
        /\ drawAttrs.count = Len(CubeIndices)
        /\ drawAttrs.count * drawAttrs.indexBytes = cubeIndexBuffer.bytes
    /\ Positions("Draw") # {} =>
        /\ drawAttrs.call = "Draw"
        /\ drawAttrs.count = 3
        /\ drawAttrs.count = TriShaderVertexCount

\* C5 witness: a cube iteration at its loop condition, having drawn once.
C5_Witness == pc = "LoopCond" /\ Positions("DrawIndexed") # {} /\ Positions("Present") # {}

\* The statements of an iteration, in the order the claim expects them.
IterationPcs == {"SDL_PollEvent", "GetBackBufferViews", "SetRenderTargets", "ClearRenderTarget", "ClearDepthStencil", "SetVertexBuffers", "SetIndexBuffer", "SetPipelineState", "UpdateModelMatrix", "MapConstants", "WriteConstants", "UnmapConstants", "CommitShaderResources", "DrawIndexed", "Present"}

\* C6: a quit event sets the close flag while the thread stays in event
\* processing; with the flag set the iteration goes on through its render
\* step and its present; the terminal state is entered only from the loop
\* condition, with the flag set and a whole frame rendered and presented.
C6_QuitDoesNotAbortFrame ==
    /\ [][(~m_windowShouldClose /\ m_windowShouldClose') => (pc = "SDL_PollEvent" /\ pc' = "SDL_PollEvent")]_vars
    /\ [][(m_windowShouldClose /\ pc \in IterationPcs) => pc' \in IterationPcs \cup {"LoopCond"}]_vars
    /\ [][(pc' = "return 0" /\ pc # "return 0") =>
            /\ pc = "LoopCond"
            /\ m_windowShouldClose
            /\ \A c \in RenderCalls : Positions(c) # {}
            /\ \E q \in Positions("SDL_PollEvent:SDL_QUIT") : \A r \in Positions("GetBackBufferViews") : q < r]_vars

\* C6 witness: the frame of the iteration that saw the quit event being presented.
C6_Witness == pc = "Present" /\ m_windowShouldClose /\ Positions("SDL_PollEvent:SDL_QUIT") # {}

\* The statements of the render step that come after the views are fetched.
AfterViewsPcs == {"SetRenderTargets", "ClearRenderTarget", "ClearDepthStencil", "SetVertexBuffers", "SetIndexBuffer", "SetPipelineState", "UpdateModelMatrix", "MapConstants", "WriteConstants", "UnmapConstants", "CommitShaderResources", "DrawIndexed", "Present", "LoopCond"}

\* The statements at which the constants of this frame are in the buffer.
AfterUnmapPcs == {"CommitShaderResources", "DrawIndexed", "Present", "LoopCond"}

\* C7: once a resize event (w, h) has been dequeued, every frame rendered
\* until the next one uses a projection of aspect w/h, a swapchain and back
\* buffer views of w by h, and constants built from that projection; the
\* size (800, 600) gives the aspect 4/3.
C7_ResizeTakesEffect ==
    (lastResize # NoSize /\ pc \in AfterViewsPcs \cup {"GetBackBufferViews"}) =>
        LET w == lastResize[1]
            h == lastResize[2]
        IN  /\ m_projMatrix.kind = "Projection"
            /\ m_projMatrix.aspect[2] > 0
            /\ m_projMatrix.aspect[1] * h = m_projMatrix.aspect[2] * w
            /\ (lastResize = <<800, 600>> => m_projMatrix.aspect = <<4, 3>>)
            /\ m_pSwapChain.valid /\ m_pSwapChain.Width = w /\ m_pSwapChain.Height = h
            /\ pc \in AfterViewsPcs => (pRTV.Width = w /\ pRTV.Height = h /\ pDSV.Width = w /\ pDSV.Height = h)
            /\ pc \in AfterUnmapPcs => m_pVSConstants.data.proj = m_projMatrix

\* C7 witness: a later frame, whose own iteration dequeued no resize event,
\* presented after the resize to (800, 600).
C7_Witness == pc = "Present" /\ lastResize = <<800, 600>> /\ Positions("SDL_PollEvent:resize") = {}

\* The statements inside InitializeGraphicsEngine.
InsideInitPcs == {"InitializeGraphicsEngine", "GetEngineFactory", "CreateDeviceAndContexts", "CreateSwapChain"}

\* C8 (as claimed): once backend initialisation has failed and the function
\* is left, the session is empty, the error has reached main(), and main()
\* is aborting startup: it is in its catch block or has returned.
C8_NoPartialSession ==
    (initFailure # "none" /\ pc \notin InsideInitPcs) =>
        /\ m_pDevice = NULL /\ m_pImmediateContext = NULL /\ ~m_pSwapChain.valid
        /\ pc \in {"catch", "exit", "done"}

\* C9 (as claimed): once a shader or the pipeline state has failed to build,
\* the process is terminating: no further statement of the setup or of the
\* frame loop is reached.
C9_BuildFailureFatal ==
    buildFailure # "none" => pc \in {"exit", "done", "crashed"}

\* The process is over: main() returned and the exit handlers ran, or it was killed.
Terminated == pc \in {"done", "crashed"}

\* C10 (as claimed): each startup failure makes main() return its own
\* negative code, each code is returned for its own failure only, and 0 is
\* returned only by a run whose loop ended on an observed quit event.
C10_ExitCodes ==
    /\ (Terminated /\ startupFailure = "SDL_Init") => (returned /\ exitCode = -1)
    /\ (Terminated /\ startupFailure = "SDL_CreateWindow") => (returned /\ exitCode = -3)
    /\ (Terminated /\ initFailure # "none") => (returned /\ exitCode = -5)
    /\ (returned /\ exitCode = -1) => (startupFailure = "SDL_Init" /\ initFailure = "none")
    /\ (returned /\ exitCode = -3) => (startupFailure = "SDL_CreateWindow" /\ initFailure = "none")
    /\ (returned /\ exitCode = -5) => (startupFailure = "none" /\ initFailure # "none")
    /\ (returned /\ exitCode = 0) => (startupFailure = "none" /\ initFailure = "none" /\ m_windowShouldClose /\ quitQueued)
    /\ returned => exitCode \in {-1, -3, -5, 0}

\* The kinds the claim names as unsupported by the build of main.cpp: the
\* Direct3D kinds off Windows, and OpenGL (the default argument) everywhere.
UnsupportedKind == (platform # "win32" /\ renderDeviceType \in {"D3D11", "D3D12"}) \/ renderDeviceType = "GL"

\* The statements a run reaches before it enters InitializeGraphicsEngine.
BeforeInitPcs == {"SDL_Init", "atexit", "SDL_CreateWindow"}

\* C11: a device kind the build has no case for makes
\* InitializeGraphicsEngine raise before it asks for any factory or creates
\* any part of the session; the error reaches the catch block of main() once,
\* initialisation is entered once and never again, and main() returns -5.
C11_UnsupportedKind ==
    /\ [](UnsupportedKind =>
            /\ pc \in BeforeInitPcs \cup {"InitializeGraphicsEngine", "catch", "exit", "done"}
            /\ pFactory = NULL /\ m_pDevice = NULL /\ m_pImmediateContext = NULL /\ ~m_pSwapChain.valid
            /\ (pc = "catch" => initFailure = "unsupported" /\ ~returned)
            /\ ((pc \in {"exit", "done"} /\ startupFailure = "none") =>
                    (initFailure = "unsupported" /\ returned /\ exitCode = -5)))
    /\ [][(pc' = "catch" /\ pc # "catch") => pc = "InitializeGraphicsEngine"]_vars
    /\ [][pc = "catch" => (pc' = "exit" /\ returned' /\ exitCode' = -5)]_vars
    /\ [][(pc' = "InitializeGraphicsEngine" /\ pc # "InitializeGraphicsEngine") => pc = "SDL_CreateWindow"]_vars

\* C11 witness: Direct3D 11 asked for off Windows (the call main() makes), and
\* the process over with exit code -5.
C11_Witness ==
    /\ platform = "macosx" /\ renderDeviceType = "D3D11"
    /\ pc = "done" /\ initFailure = "unsupported" /\ returned /\ exitCode = -5

\* C12: resize idempotence.  When the event handled last was a resize to
\* (w, h) and the next event handled is a resize to the same (w, h), with
\* h > 0, the second call of OnResize leaves the swapchain reporting w by h
\* and the projection, with its aspect term w/h, as the first call left them.
C12_ResizeIdempotence ==
    [][\A s \in ResizeSizes :
        LET w == s[1]
            h == s[2]
            n == Len(frameCalls)
        IN  (/\ pc = "SDL_PollEvent"
             /\ n >= 3
             /\ frameCalls[n] = CallWH("ISwapChain::Resize", w, h)
             /\ Len(frameCalls') = n + 3
             /\ frameCalls'[n + 1] = CallWH("SDL_PollEvent:resize", w, h))
            => /\ h > 0
               /\ frameCalls'[n + 2] = CallWH("OnResize", w, h)
               /\ frameCalls'[n + 3] = CallWH("ISwapChain::Resize", w, h)
               /\ m_pSwapChain.Width = w /\ m_pSwapChain.Height = h
               /\ m_pSwapChain'.Width = w /\ m_pSwapChain'.Height = h
               /\ m_projMatrix.kind = "Projection"
               /\ m_projMatrix.aspect[1] * h = m_projMatrix.aspect[2] * w
               /\ m_projMatrix' = m_projMatrix]_vars

\* C12 witness: one drain that handled two resize events in a row, both to
\* (800, 600), with the swapchain at 800 by 600 and the aspect at 4/3.
C12_Witness ==
    /\ Len(frameCalls) >= 6
    /\ frameCalls[1] = CallWH("SDL_PollEvent:resize", 800, 600)
    /\ frameCalls[3] = CallWH("ISwapChain::Resize", 800, 600)
    /\ frameCalls[4] = CallWH("SDL_PollEvent:resize", 800, 600)
    /\ frameCalls[6] = CallWH("ISwapChain::Resize", 800, 600)
    /\ m_pSwapChain.Width = 800 /\ m_pSwapChain.Height = 600
    /\ m_projMatrix = Projection(<<4, 3>>)

\* C13 (as claimed): however the process ends, no window is left existing:
\* a window that was created has been destroyed by cleanup(), and no window
\* is destroyed twice.
C13_GuaranteedCleanup ==
    /\ m_mainWindow # "destroyed twice"
    /\ Terminated => m_mainWindow \in {NULL, "destroyed"}
    /\ m_mainWindow = "destroyed" => (atexitRegistered /\ pc = "done")

\* The statements of the render step, the first one included.
RenderPcs == AfterViewsPcs \cup {"GetBackBufferViews"}

\* The entries of the record of calls that are polls yielding an event.
EventPolls == Positions("SDL_PollEvent:SDL_QUIT") \cup Positions("SDL_PollEvent:resize")

C15_ProjectionMatchesSwapChain ==
    pc \in {"DrawIndexed", "Present"} =>
        /\ m_pSwapChain.valid /\ m_pSwapChain.Height > 0
        /\ ~m_pVSConstants.mapped
        /\ m_pVSConstants.data.transposed
        /\ m_pVSConstants.data.proj = m_projMatrix
        /\ m_pVSConstants.data.proj.kind = "Projection"
        /\ m_pVSConstants.data.proj.aspect[1] * m_pSwapChain.Height = m_pVSConstants.data.proj.aspect[2] * m_pSwapChain.Width
        /\ lastResize = NoSize =>
            /\ m_pSwapChain.Width = VideoModeWidth /\ m_pSwapChain.Height = VideoModeHeight
            /\ m_pVSConstants.data.proj.aspect = <<InitialAspectNum, InitialAspectDen>>

\* C15 witness: a frame drawn before any resize event, 16/9 on 1920 by 1080.
C15_Witness ==
    /\ pc = "Present" /\ lastResize = NoSize
    /\ m_pSwapChain.Width = 1920 /\ m_pSwapChain.Height = 1080
    /\ m_pVSConstants.data.proj.aspect = <<16, 9>>

\* The statements of one iteration.
LoopPcs == RenderPcs \cup {"SDL_PollEvent"}

\* This step is a poll that yielded a resize event of size (w, h).
HandlesResize(w, h) ==
    /\ pc = "SDL_PollEvent"
    /\ Len(frameCalls') > Len(frameCalls)
    /\ frameCalls'[Len(frameCalls) + 1] = CallWH("SDL_PollEvent:resize", w, h)

\* This step is a poll that yielded a quit event.
HandlesQuit ==
    /\ pc = "SDL_PollEvent"
    /\ Len(frameCalls') > Len(frameCalls)
    /\ frameCalls'[Len(frameCalls) + 1] = Call("SDL_PollEvent:SDL_QUIT")

\* C16 (as claimed): inside the loop the three transform matrices are
\* written by statements of the render step only, so that event processing
\* leaves all three unchanged; the close flag is written by event processing
\* only, and the swapchain's size by a resize only.
C16_SingleWriter ==
    [][/\ (pc \in LoopPcs /\ matVars' # matVars) => pc \in RenderPcs
       /\ pc = "SDL_PollEvent" => matVars' = matVars
       /\ m_windowShouldClose' # m_windowShouldClose => pc = "SDL_PollEvent"
       /\ (pc \in LoopPcs /\ m_pSwapChain' # m_pSwapChain) => \E s \in ResizeSizes : HandlesResize(s[1], s[2])]_vars

\* C16 (amended): inside the loop the model matrix is written by the render
\* step only and the view matrix by nothing; the projection is written by
\* event processing only, when it handles a resize event, and then it is the
\* projection of that event's size; the close flag is written only by event
\* processing handling a quit event; the swapchain is touched only by a
\* resize, in its size alone; event processing leaves view and model unchanged.
C16_SingleWriterAmended ==
    [][/\ (pc \in LoopPcs /\ m_modelMatrix' # m_modelMatrix) => pc = "UpdateModelMatrix"
       /\ pc \in LoopPcs => m_viewMatrix' = m_viewMatrix
       /\ (pc \in LoopPcs /\ m_projMatrix' # m_projMatrix) => \E s \in ResizeSizes : HandlesResize(s[1], s[2])
       /\ \A s \in ResizeSizes : HandlesResize(s[1], s[2]) =>
            /\ m_projMatrix' = Projection(AspectOf(s[1], s[2]))
            /\ m_pSwapChain' = [m_pSwapChain EXCEPT !.Width = s[1], !.Height = s[2]]
       /\ m_windowShouldClose' # m_windowShouldClose => (HandlesQuit /\ m_windowShouldClose')
       /\ (pc \in LoopPcs /\ m_pSwapChain' # m_pSwapChain) => \E s \in ResizeSizes : HandlesResize(s[1], s[2])
       /\ pc = "SDL_PollEvent" => (m_viewMatrix' = m_viewMatrix /\ m_modelMatrix' = m_modelMatrix)]_vars

\* C16 witness: event processing of the first iteration has handled a resize
\* to (800, 600): the projection is the one of 4/3, written before any render
\* step ran, and view and model are as the setup left them.
C16_Witness ==
    /\ pc = "SDL_PollEvent" /\ lastResize = <<800, 600>>
    /\ m_projMatrix = Projection(<<4, 3>>)
    /\ m_viewMatrix = IdentityMatrix /\ m_modelMatrix = IdentityMatrix
    /\ Positions("OnResize") # {}

\* C17: the write-map of the constants buffer is scoped.  In every iteration
\* the buffer is mapped once and unmapped once, in that order; the unmap
\* comes before CommitShaderResources and before the draw; the buffer is
\* mapped only between its map and its unmap, and never when the draw or the
\* present is issued.
C17_MapScoped ==
    /\ AtMostOnce("MapConstants") /\ AtMostOnce("UnmapConstants")
    /\ Precedes("MapConstants", "UnmapConstants")
    /\ Precedes("MapConstants", "WriteConstants")
    /\ Precedes("UnmapConstants", "CommitShaderResources")
    /\ Precedes("UnmapConstants", "DrawIndexed")
    /\ Precedes("UnmapConstants", "Present")
    /\ pc = "LoopCond" => (Positions("MapConstants") # {} /\ Positions("UnmapConstants") # {})
    /\ m_pVSConstants.mapped <=> (Positions("MapConstants") # {} /\ Positions("UnmapConstants") = {})
    /\ m_pVSConstants.mapped => pc \in {"WriteConstants", "UnmapConstants"}
    /\ pc \in {"CommitShaderResources", "DrawIndexed", "Present", "LoopCond"} => ~m_pVSConstants.mapped

\* C17 witness: a draw about to be issued, the buffer mapped and unmapped
\* once in this iteration and holding this frame's constants.
C17_Witness ==
    /\ pc = "DrawIndexed" /\ ~m_pVSConstants.mapped
    /\ Cardinality(Positions("MapConstants")) = 1 /\ Cardinality(Positions("UnmapConstants")) = 1
    /\ m_pVSConstants.data = TransposedMVP(m_modelMatrix, m_viewMatrix, m_projMatrix)

\* The statements from which backend selection is still to come or under way.
UpToInitPcs == BeforeInitPcs \cup InsideInitPcs

\* C18: backend selection happens once, before pipeline setup: the factory
\* is chosen once, inside InitializeGraphicsEngine, which is entered once;
\* after it no step rebinds the device or the context or puts another
\* swapchain object in place; a resize changes the swapchain's size and the
\* projection and leaves device, context, the swapchain object, pipeline
\* state, resource binding, constants binding and geometry buffers alone.
C18_BackendSelectedOnce ==
    /\ [](pc \notin UpToInitPcs \cup {"catch", "exit", "done", "crashed"} => pFactory = renderDeviceType)
    /\ [][(pc' = "InitializeGraphicsEngine" /\ pc # "InitializeGraphicsEngine") => pc = "SDL_CreateWindow"]_vars
    /\ [][pFactory' # pFactory => (pc = "GetEngineFactory" /\ pFactory = NULL /\ pFactory' = renderDeviceType)]_vars
    /\ [][pc \notin UpToInitPcs =>
            /\ pFactory' = pFactory
            /\ m_pDevice' = m_pDevice
            /\ m_pImmediateContext' = m_pImmediateContext
            /\ m_pSwapChain'.id = m_pSwapChain.id
            /\ m_pSwapChain'.valid = m_pSwapChain.valid
            /\ pc' \notin UpToInitPcs]_vars
    /\ [][\A s \in ResizeSizes : HandlesResize(s[1], s[2]) =>
            /\ m_pSwapChain' = [m_pSwapChain EXCEPT !.Width = s[1], !.Height = s[2]]
            /\ m_projMatrix' = Projection(AspectOf(s[1], s[2]))
            /\ UNCHANGED <<pFactory, m_pDevice, m_pImmediateContext, pipeVars, m_viewMatrix, m_modelMatrix>>]_vars

\* C18 witness: a frame presented after a resize, on the device, context and
\* swapchain object that backend selection created.
C18_Witness ==
    /\ pc = "Present" /\ lastResize # NoSize
    /\ pFactory = renderDeviceType
    /\ m_pDevice = "device" /\ m_pImmediateContext = "context"
    /\ m_pSwapChain = NewSwapChain(lastResize[1], lastResize[2])

\* C19 (as claimed): an iteration that has started processing events goes on
\* to its render step and has presented its frame after finitely many
\* steps, whatever the window system adds to the queue meanwhile.
C19_IterationProgress == (pc = "SDL_PollEvent") ~> (pc = "LoopCond" /\ Positions("Present") # {})

\* C20: setup order of the pipeline-static resource.  The constants buffer
\* exists when the pipeline state is built; "Constants" is bound to that
\* buffer after the pipeline state is built and before the shader resource
\* binding is created; and every CommitShaderResources and every draw comes
\* after all of it: nothing is drawn with the static slot unbound.
C20_StaticResourceSetupOrder ==
    /\ [](m_pPSO # NULL => m_pVSConstants.valid)
    /\ [](staticConstants # NULL => (staticConstants = "m_pVSConstants" /\ m_pPSO # NULL /\ m_pVSConstants.valid))
    /\ [](m_pSRB # NULL => staticConstants = "m_pVSConstants")
    /\ []((pc \in LoopPcs \cup {"LoopCond"} \/ Positions("CommitShaderResources") # {} \/ Positions("DrawIndexed") # {}) =>
            (m_pVSConstants.valid /\ m_pPSO # NULL /\ staticConstants = "m_pVSConstants" /\ m_pSRB # NULL))
    /\ [][m_pVSConstants'.valid # m_pVSConstants.valid => (m_pPSO = NULL /\ staticConstants = NULL /\ m_pSRB = NULL)]_vars
    /\ [][m_pPSO' # m_pPSO => (m_pVSConstants.valid /\ staticConstants = NULL /\ m_pSRB = NULL)]_vars
    /\ [][staticConstants' # staticConstants => (m_pPSO # NULL /\ m_pSRB = NULL /\ Positions("DrawIndexed") = {})]_vars
    /\ [][m_pSRB' # m_pSRB => (staticConstants = "m_pVSConstants" /\ frameCalls = <<>>)]_vars

\* C20 witness: a frame drawn, its resources committed, with "Constants"
\* bound to the constants buffer and the resource binding in place.
C20_Witness ==
    /\ pc = "Present"
    /\ Positions("CommitShaderResources") # {} /\ Positions("DrawIndexed") # {}
    /\ staticConstants = "m_pVSConstants" /\ m_pSRB = "SRB" /\ m_pPSO = "PSO"
    /\ m_pVSConstants.valid

\* The statements that call a member of m_pDevice.
DeviceUsePcs == {"CreateVS", "CreatePS", "CreateConstantsBuffer", "CreatePSO", "CreateVertexBuffer", "CreateIndexBuffer"}

\* The statements that call a member of m_pImmediateContext.
ContextUsePcs == {"SetRenderTargets", "ClearRenderTarget", "ClearDepthStencil", "SetVertexBuffers", "SetIndexBuffer", "SetPipelineState", "MapConstants", "CommitShaderResources", "DrawIndexed"}

\* The statements that call a member of m_pSwapChain (the event loop calls
\* one when it handles a resize event).
SwapChainUsePcs == {"PSODesc", "SDL_PollEvent", "GetBackBufferViews", "Present"}

\* The statements that call a member of m_pPSO; the first of them also goes
\* through the static variable it looks up.
PSOUsePcs == {"BindConstants", "CreateSRB"}

\* C21 (as claimed): null-safety of the session handles.  Whenever the
\* thread stands at a statement that goes through the device, the immediate
\* context, the swapchain or the pipeline state, that handle is non-null,
\* whichever creation calls succeeded or failed without raising.
C21_NullSafety ==
    /\ pc \in DeviceUsePcs => m_pDevice # NULL
    /\ pc \in ContextUsePcs => m_pImmediateContext # NULL
    /\ pc \in SwapChainUsePcs => m_pSwapChain.valid
    /\ pc \in PSOUsePcs => m_pPSO # NULL

====
